---- MODULE Spec2Model ----
(***************************************************************************)
(* Model of src/src/App.tsx: the seed -> HSV derivation (makeHSV), the     *)
(* seed stepper (next), and the session/round state held by App together   *)
(* with the handlers doCheck and doNext behind the Check/Next button.      *)
(*                                                                         *)
(* Numbers.  JavaScript numbers are IEEE doubles.  Every colour component  *)
(* the code computes is a multiple of 1/32 except the Easy hue, where      *)
(* (seed & 255) / 6 is rounded before it is multiplied by 60.  A colour    *)
(* component is therefore the record [m, eps] standing for the double      *)
(*      m / 32  +  eps * 2^-49                                             *)
(* with eps = 0 whenever the double arithmetic of the code is exact.       *)
(* Seeds are JavaScript int32 values; 32-bit operations are carried out on *)
(* 16-bit halves so that no intermediate value leaves the int32 range.     *)
(***************************************************************************)
EXTENDS Integers, Sequences, FiniteSets

\* ---------------------------------------------------------------- bounds
\* Number of doNext steps explored in one session.
MaxRounds == 2
\* The initial seeds explored are 0, SeedStride, 2*SeedStride, ... and the
\* seeds of KnownSeeds.
SeedStride == 61

\* ------------------------------------------------------ bit operations
HALF == 65536

\* low and high 16-bit halves of the two's complement form of an int32
Lo16(n) == n % HALF
Hi16(n) == (n \div HALF) % HALF

\* ToInt32 of the unsigned 32-bit value hi * 2^16 + lo
FromHalves(hi, lo) == (IF hi >= 32768 THEN hi - HALF ELSE hi) * HALF + lo

RECURSIVE And16(_, _)
And16(a, b) ==
    IF a = 0 \/ b = 0 THEN 0
    ELSE (IF a % 2 = 1 /\ b % 2 = 1 THEN 1 ELSE 0)
         + 2 * And16(a \div 2, b \div 2)

RECURSIVE Xor16(_, _)
Xor16(a, b) ==
    IF a = 0 THEN b
    ELSE IF b = 0 THEN a
    ELSE (IF a % 2 = b % 2 THEN 0 ELSE 1) + 2 * Xor16(a \div 2, b \div 2)

\* variant of BitAnd: the sign of a negative left operand is kept, as a
\* remainder would
BitAndKeepsSign(a, b) ==
    IF a < 0 THEN 0 - And16(Lo16(0 - a), Lo16(b))
    ELSE FromHalves(And16(Hi16(a), Hi16(b)), And16(Lo16(a), Lo16(b)))

\* JavaScript a & b and a ^ b on int32 operands
BitAnd(a, b) == FromHalves(And16(Hi16(a), Hi16(b)), And16(Lo16(a), Lo16(b)))
BitXor(a, b) == FromHalves(Xor16(Hi16(a), Hi16(b)), Xor16(Lo16(a), Lo16(b)))

\* JavaScript a >> k for a non-negative a
ShiftRight(a, k) == a \div (2 ^ k)

RECURSIVE BitLength(_)
BitLength(n) == IF n = 0 THEN 0 ELSE 1 + BitLength(n \div 2)

\* ------------------------------------------------------------- numbers
Unit == 2 ^ 5

Num(m) == [m |-> m, eps |-> 0]

\* the double x, as a Num, for an integer x
FromInt(x) == Num(x * Unit)

\* variant of Mod360: the hue is not reduced
Mod360NoWrap(a) == a

\* a % 360 on a non-negative double whose exact part is not a multiple of
\* 360 unless eps = 0 (fmod is exact)
Mod360(a) == [m |-> a.m % (360 * Unit), eps |-> a.eps]

\* 0 <= a, a < b and a <= b for a Num a and an integer b
NonNeg(a) == a.m > 0 \/ (a.m = 0 /\ a.eps >= 0)
LessThanInt(a, b) == a.m < b * Unit \/ (a.m = b * Unit /\ a.eps < 0)
AtMostInt(a, b) == a.m < b * Unit \/ (a.m = b * Unit /\ a.eps <= 0)

\* ------------------------------------------------------------ difficulty
Easy == "Easy"
Medium == "Medium"
Hard == "Hard"
GuesserDifficulty == {Easy, Medium, Hard}

\* --------------------------------------------------------------- makeHSV
\* The double (360 / 6) * (x / 6) for an integer x in 0..255.
\* x / 6 = (x / 3) / 2 is exact when 3 divides x.  Otherwise x / 3 has the
\* binary fraction 0101... (remainder 1) or 1010... (remainder 2), cut
\* after n = 52 - e fraction bits where 2^e <= x / 3 < 2^(e+1); the cut
\* rounds up when the dropped tail is 1010....  The product with 60 is
\* then 10 * x +- 10 * 2^-n, that is 10/16 or 10/32 of an ulp of 10 * x
\* away from 10 * x, and rounds to the neighbour of 10 * x in the first
\* case and to 10 * x in the second.
EasyHueRaw(x) ==
    LET q == x \div 3
        r == x % 3
        e == IF q >= 1 THEN BitLength(q) - 1 ELSE IF r = 1 THEN -2 ELSE -1
        n == 52 - e
        up == IF r = 1 THEN n % 2 = 1 ELSE n % 2 = 0
        e2 == BitLength(10 * x) - 1
    IN  IF r = 0 \/ e2 # e + 4
        THEN Num(10 * x * Unit)
        ELSE [m |-> 10 * x * Unit,
              eps |-> (IF up THEN 1 ELSE -1) * 2 ^ (e2 - 3)]

makeHSVEasy(seed) ==
    LET hue == Mod360(EasyHueRaw(BitAnd(seed, ShiftRight(65280, 8))))
        \* (100 / 4) * (f / 4) = 25 * f / 4
        val == Num((25 * BitAnd(seed, ShiftRight(240, 4)) * Unit) \div 4)
        sat == Num((25 * BitAnd(seed, 15) * Unit) \div 4)
    IN  <<hue, val, sat>>

makeHSVMedium(seed) ==
    LET \* ((360 / 16) * f) / 16 = 45 * f / 32
        hue == Mod360(Num((45 * BitAnd(seed, ShiftRight(65280, 8)) * Unit) \div 32))
        \* (100 / 8) * (f / 2) = 25 * f / 4
        val == Num((25 * BitAnd(seed, ShiftRight(240, 4)) * Unit) \div 4)
        sat == Num((25 * BitAnd(seed, 15) * Unit) \div 4)
    IN  <<hue, val, sat>>

\* JavaScript a % b for b > 0: the sign follows a
Remainder(a, b) == IF a < 0 /\ a % b # 0 THEN (a % b) - b ELSE a % b

\* variant of makeHSVHard: saturation is read from bits 4-7
makeHSVHardSplitFields(seed) ==
    LET hue == Mod360(Num((45 * BitAnd(seed, ShiftRight(32512, 8)) * Unit) \div 8))
        val == Num((25 * ShiftRight(BitAnd(seed, 240), 4) * Unit) \div 4)
        sat == Num((25 * BitAnd(seed, 15) * Unit) \div 4)
    IN  <<hue, val, sat>>

\* variant of makeHSVHard: the fields are taken with % instead of &
makeHSVHardRemainder(seed) ==
    LET hue == Mod360(Num((45 * Remainder(seed, 128) * Unit) \div 8))
        val == Num((25 * Remainder(seed, 16) * Unit) \div 4)
        sat == Num((25 * Remainder(seed, 16) * Unit) \div 4)
    IN  <<hue, val, sat>>

makeHSVHard(seed) ==
    LET \* (360 / 64) * f = 45 * f / 8
        hue == Mod360(Num((45 * BitAnd(seed, ShiftRight(32512, 8)) * Unit) \div 8))
        \* (100 / 16) * f = 25 * f / 4
        val == Num((25 * BitAnd(seed, ShiftRight(240, 4)) * Unit) \div 4)
        sat == Num((25 * BitAnd(seed, 15) * Unit) \div 4)
    IN  <<hue, val, sat>>

makeHSV(difficulty, seed) ==
    CASE difficulty = Easy -> makeHSVEasy(seed)
      [] difficulty = Medium -> makeHSVMedium(seed)
      [] difficulty = Hard -> makeHSVHard(seed)

\* ------------------------------------------------------------------ next
TWIST == <<32771, 16411, 14009, 11003>>

\* ToInt32(seed * 65521): the product is exact as a double (below 2^53) and
\* ^ reduces it modulo 2^32.  With 65521 = 2^16 - 15 and
\* seed = hi * 2^16 + lo (mod 2^32):
\*     seed * 65521 = (lo - 15 * hi) * 2^16 - 15 * lo   (mod 2^32).
MulInt32(seed) ==
    LET lo == Lo16(seed)
        hi == Hi16(seed)
        p == (0 - 15) * lo
    IN  FromHalves((lo + (p \div HALF) - 15 * hi) % HALF, p % HALF)

\* variant of next: the twist is chosen by the lowest bit alone
nextOneBitTwist(seed) == BitXor(MulInt32(seed), TWIST[BitAnd(seed, 1) + 1])

next(seed) == BitXor(MulInt32(seed), TWIST[BitAnd(seed, 3) + 1])

\* ------------------------------------------------------------- makeRound
\* variant of makeRound: the seed is advanced before the colour is derived
makeRoundAdvanceFirst(difficulty, seed) ==
    LET hsv == makeHSV(difficulty, next(seed))
    IN  [hue |-> hsv[1],
         saturation |-> hsv[2],
         value |-> hsv[3],
         seed |-> next(seed),
         checking |-> FALSE]

makeRound(difficulty, seed) ==
    LET hsv == makeHSV(difficulty, seed)
    IN  [hue |-> hsv[1],
         saturation |-> hsv[2],
         value |-> hsv[3],
         seed |-> next(seed),
         checking |-> FALSE]

\* ---------------------------------------------------------------- state
VARIABLES
    session,    \* GuesserSession: guessed, score, difficulty, seed
    round,      \* GuesserRound: hue, saturation, value, checking, seed
    hue,        \* the player's hue slider
    sat,        \* the player's saturation slider
    val,        \* the player's value slider
    advances    \* history: number of doNext steps performed

vars == <<session, round, hue, sat, val, advances>>

\* Date.now() & 0xffff
MaxSeed == 65535
KnownSeeds == {0, 1, 2, 32527, MaxSeed}
Seeds == {s \in 0..MaxSeed : s % SeedStride = 0} \cup KnownSeeds

initSession(now) ==
    [guessed |-> 0, score |-> 0, difficulty |-> Easy, seed |-> now]

\* values the slider events deliver
HueChoices == {FromInt(0), FromInt(90)}
SVChoices == {FromInt(0), FromInt(25)}

InitWith(s) ==
    /\ session = s
    /\ round = makeRound(s.difficulty, s.seed)
    /\ hue = FromInt(0)
    /\ sat = FromInt(0)
    /\ val = FromInt(0)
    /\ advances = 0

Init == \E now \in Seeds : InitWith(initSession(now))

\* the session started at any difficulty
InitAny ==
    \E now \in Seeds, d \in GuesserDifficulty :
        InitWith([initSession(now) EXCEPT !.difficulty = d])

setHue(h) == hue' = h /\ UNCHANGED <<session, round, sat, val, advances>>
setSat(s) == sat' = s /\ UNCHANGED <<session, round, hue, val, advances>>
setVal(v) == val' = v /\ UNCHANGED <<session, round, hue, sat, advances>>

\* variant of doCheck: a matching hue alone scores
doCheckHueOnly ==
    LET guessed == session.guessed + 1
        score == session.score + (IF hue = round.hue THEN 1 ELSE 0)
    IN  /\ round' = [round EXCEPT !.checking = TRUE]
        /\ session' = [session EXCEPT !.guessed = guessed, !.score = score]
        /\ UNCHANGED <<hue, sat, val, advances>>

\* variant of doCheck: the guess is not counted
doCheckNoCount ==
    LET score == session.score
                 + (IF hue = round.hue /\ sat = round.saturation
                       /\ val = round.value
                    THEN 1 ELSE 0)
    IN  /\ round' = [round EXCEPT !.checking = TRUE]
        /\ session' = [session EXCEPT !.score = score]
        /\ UNCHANGED <<hue, sat, val, advances>>

\* variant of doCheck: every matching component scores
doCheckPerComponent ==
    LET guessed == session.guessed + 1
        score == session.score
                 + (IF hue = round.hue THEN 1 ELSE 0)
                 + (IF sat = round.saturation THEN 1 ELSE 0)
                 + (IF val = round.value THEN 1 ELSE 0)
    IN  /\ round' = [round EXCEPT !.checking = TRUE]
        /\ session' = [session EXCEPT !.guessed = guessed, !.score = score]
        /\ UNCHANGED <<hue, sat, val, advances>>

\* variant of doCheck: the session's seed follows the round's carried seed
doCheckAdvancesSessionSeed ==
    LET guessed == session.guessed + 1
        score == session.score
                 + (IF hue = round.hue /\ sat = round.saturation
                       /\ val = round.value
                    THEN 1 ELSE 0)
    IN  /\ round' = [round EXCEPT !.checking = TRUE]
        /\ session' = [session EXCEPT !.guessed = guessed, !.score = score,
                                      !.seed = round.seed]
        /\ UNCHANGED <<hue, sat, val, advances>>

\* variant of doCheck: a scoring guess also steps the round's carried seed
doCheckReseeds ==
    LET guessed == session.guessed + 1
        match == hue = round.hue /\ sat = round.saturation
                 /\ val = round.value
        score == session.score + (IF match THEN 1 ELSE 0)
    IN  /\ round' = [round EXCEPT !.checking = TRUE,
                                  !.seed = IF match THEN next(@) ELSE @]
        /\ session' = [session EXCEPT !.guessed = guessed, !.score = score]
        /\ UNCHANGED <<hue, sat, val, advances>>

doCheck ==
    LET guessed == session.guessed + 1
        score == session.score
                 + (IF hue = round.hue /\ sat = round.saturation
                       /\ val = round.value
                    THEN 1 ELSE 0)
    IN  /\ round' = [round EXCEPT !.checking = TRUE]
        /\ session' = [session EXCEPT !.guessed = guessed, !.score = score]
        /\ UNCHANGED <<hue, sat, val, advances>>

\* variant of doNext: the next round is made from the session's seed
doNextSessionSeed ==
    /\ advances < MaxRounds
    /\ round' = makeRound(session.difficulty, session.seed)
    /\ advances' = advances + 1
    /\ UNCHANGED <<session, hue, sat, val>>

\* variant of doNext: the session's seed is advanced with the round
doNextAdvancesSession ==
    /\ advances < MaxRounds
    /\ round' = makeRound(session.difficulty, round.seed)
    /\ session' = [session EXCEPT !.seed = round.seed]
    /\ advances' = advances + 1
    /\ UNCHANGED <<hue, sat, val>>

doNext ==
    /\ advances < MaxRounds
    /\ round' = makeRound(session.difficulty, round.seed)
    /\ advances' = advances + 1
    /\ UNCHANGED <<session, hue, sat, val>>

\* variant of ClickCheck: the button checks whatever the round's state
ClickCheckAlways == doCheck

\* onClick of the Check/Next button
ClickCheck == ~round.checking /\ doCheck
\* variant of ClickNext: the button always advances
ClickNextAlways == doNext
ClickNext == round.checking /\ doNext

ChangeHue == \E h \in HueChoices : setHue(h)
ChangeSat == \E s \in SVChoices : setSat(s)
ChangeVal == \E v \in SVChoices : setVal(v)

Next == ChangeHue \/ ChangeSat \/ ChangeVal \/ ClickCheck \/ ClickNext

Spec == Init /\ [][Next]_vars
SpecAny == InitAny /\ [][Next]_vars

TypeOK ==
    /\ session.guessed \in Nat
    /\ session.score \in Nat
    /\ session.difficulty \in GuesserDifficulty
    /\ round.checking \in BOOLEAN
    /\ round.seed \in Int
    /\ advances \in 0..MaxRounds

\* ------------------------------------------------------------ properties
\* steps of the two button operations, told apart by the checking flag
CheckStep == ~round.checking /\ round'.checking
AdvanceStep == round.checking /\ ~round'.checking

Matches ==
    hue = round.hue /\ sat = round.saturation /\ val = round.value

HueInRange(h) == NonNeg(h) /\ LessThanInt(h, 360)
SVInRange(x) == NonNeg(x) /\ AtMostInt(x, 100)

\* C1: in every reachable state the round's carried seed, the result of
\* next, is an integer in 0..65535.
C1_CarriedSeed16Bit == round.seed \in 0..MaxSeed

\* C2: a doCheck step adds 1 to session.score if and only if the guessed
\* hue, saturation and value all equal the round's target; in every other
\* case the score is left as it was.
C2_ScoreIffMatch ==
    [][CheckStep =>
        /\ (session'.score = session.score + 1) <=> Matches
        /\ ~Matches => session'.score = session.score]_vars

\* a guess that matched the target has been checked and scored
C2_Witness ==
    /\ round.checking
    /\ Matches
    /\ session.guessed = 1
    /\ session.score = 1

\* C3: every doCheck step adds exactly 1 to guessed and 0 or 1 to score.
C3_CheckIncrements ==
    [][CheckStep =>
        /\ session'.guessed = session.guessed + 1
        /\ session'.score \in {session.score, session.score + 1}]_vars

\* a second guess has been checked, one of the two scored
C3_Witness ==
    /\ round.checking
    /\ session.guessed = 2
    /\ session.score = 1

\* C4: in every reachable state 0 <= score <= guessed.
C4_ScoreAtMostGuessed ==
    /\ 0 <= session.score
    /\ session.score <= session.guessed

\* after a check and an advance the score has caught up with guessed
C4_Witness ==
    /\ advances >= 1
    /\ session.guessed >= 1
    /\ session.score = session.guessed

\* C5: the colour derived for a round from a difficulty and a seed in
\* 0..65535 has hue in [0, 360), saturation and value in [0, 100].
C5_ColourInRange ==
    (advances = 0 /\ session.seed \in 0..MaxSeed) =>
        /\ round.hue = makeHSV(session.difficulty, session.seed)[1]
        /\ HueInRange(round.hue)
        /\ SVInRange(round.saturation)
        /\ SVInRange(round.value)

\* a hue of 714.375 before the reduction, wrapped to 354.375
C5_Witness ==
    /\ advances = 0
    /\ session.difficulty = Hard
    /\ session.seed = MaxSeed
    /\ round.hue = Num(11340)
    /\ round.saturation = Num(3000)

\* C6: a doNext step on a round in Checking with carried seed c replaces it
\* by a round whose target is makeHSV(session.difficulty, c), whose carried
\* seed is next(c) and whose checking flag is false.
C6_AdvanceDerivesFromCarriedSeed ==
    [][AdvanceStep =>
        LET target == makeHSV(session.difficulty, round.seed)
        IN  /\ round'.hue = target[1]
            /\ round'.saturation = target[2]
            /\ round'.value = target[3]
            /\ round'.seed = next(round.seed)
            /\ round'.checking = FALSE]_vars

\* a round made by doNext from a carried seed that differs from the
\* session's seed
C6_Witness ==
    /\ advances = 1
    /\ ~round.checking
    /\ round.seed = next(next(session.seed))
    /\ round.seed # next(session.seed)

\* C7: the round starts in Guessing and alternates Guessing -> Checking ->
\* Guessing: in every state (short of the explored number of rounds)
\* exactly one of the two button operations is enabled, the check when
\* checking is false and the advance when it is true; a guess is counted
\* only on a round in Guessing and it puts the round in Checking, a round
\* is replaced only when in Checking and the new round is in Guessing.
C7_Alternation ==
    /\ ~round.checking
    /\ [](advances < MaxRounds =>
            /\ (ENABLED ClickCheck) <=> ~round.checking
            /\ (ENABLED ClickNext) <=> round.checking)
    /\ [][/\ session'.guessed # session.guessed => CheckStep
          /\ advances' # advances => AdvanceStep
          /\ round' # round => (CheckStep \/ AdvanceStep)]_vars

\* Guessing again after a full Guessing -> Checking -> Guessing cycle, and
\* checked once more
C7_Witness ==
    /\ advances = 1
    /\ round.checking
    /\ session.guessed = 2

\* C8: under Hard the target is hue = ((360/64) * H) mod 360 with H bits
\* 8-14 of the seed, saturation = (100/16) * S with S bits 4-7 and
\* value = (100/16) * V with V bits 0-3.
C8_HardBitFields ==
    (advances = 0 /\ session.difficulty = Hard) =>
        LET s == session.seed
            H == ShiftRight(BitAnd(s, 32512), 8)
            S == ShiftRight(BitAnd(s, 240), 4)
            V == BitAnd(s, 15)
        IN  /\ round.hue = Num(((45 * H * Unit) \div 8) % (360 * Unit))
            /\ round.saturation = Num((25 * S * Unit) \div 4)
            /\ round.value = Num((25 * V * Unit) \div 4)

\* C9: a round started under Hard from seed 0x7F0F has hue 354.375,
\* saturation 0 and value 93.75.
C9_HardFixedPoint ==
    (advances = 0 /\ session.difficulty = Hard /\ session.seed = 32527) =>
        /\ round.hue = Num(11340)
        /\ round.saturation = FromInt(0)
        /\ round.value = Num(3000)

\* C10: over all seeds in 0..65535 the number of distinct hues, saturations
\* and values is 6, 4, 4 under Easy, 16, 8, 8 under Medium and 64, 16, 16
\* under Hard.
Distinct(d, i) == Cardinality({makeHSV(d, s)[i] : s \in 0..MaxSeed})

C10_GridSizes ==
    /\ Distinct(Easy, 1) = 6
    /\ Distinct(Easy, 2) = 4
    /\ Distinct(Easy, 3) = 4
    /\ Distinct(Medium, 1) = 16
    /\ Distinct(Medium, 2) = 8
    /\ Distinct(Medium, 3) = 8
    /\ Distinct(Hard, 1) = 64
    /\ Distinct(Hard, 2) = 16
    /\ Distinct(Hard, 3) = 16

\* C11: at every difficulty a round started from seed 0 has target hue 0,
\* saturation 0 and value 0.
C11_SeedZeroIsBlack ==
    (advances = 0 /\ session.seed = 0) =>
        /\ round.hue = FromInt(0)
        /\ round.saturation = FromInt(0)
        /\ round.value = FromInt(0)

\* the Hard round started from seed 0, its carried seed already advanced
C11_Witness ==
    /\ advances = 0
    /\ session.seed = 0
    /\ session.difficulty = Hard
    /\ round.hue = FromInt(0)
    /\ round.seed = 32771

\* C12: a doCheck step sets the round's checking flag and leaves the
\* round's target hue, saturation, value and carried seed, and the
\* session's difficulty and seed, as they were.
C12_CheckFrame ==
    [][CheckStep =>
        /\ round'.checking = TRUE
        /\ round'.hue = round.hue
        /\ round'.saturation = round.saturation
        /\ round'.value = round.value
        /\ round'.seed = round.seed
        /\ session'.difficulty = session.difficulty
        /\ session'.seed = session.seed]_vars

\* a checked round that still carries the seed it was made with, which is
\* not the session's seed
C12_Witness ==
    /\ advances = 0
    /\ round.checking
    /\ session.guessed = 1
    /\ round.seed = next(session.seed)
    /\ round.seed # session.seed

\* C13: a doNext step leaves guessed, score, difficulty and session.seed
\* unchanged, and no step at all changes session.seed or
\* session.difficulty.
C13_AdvanceKeepsSession ==
    [][/\ AdvanceStep => session' = session
       /\ session'.seed = session.seed
       /\ session'.difficulty = session.difficulty]_vars

\* after two advances the round's carried seed has moved on while the
\* session still holds a seed of the initial range and its tally
C13_Witness ==
    /\ advances = 2
    /\ session.guessed = 2
    /\ session.seed \in 0..MaxSeed
    /\ round.seed = next(next(next(session.seed)))
    /\ round.seed \notin 0..MaxSeed

\* the int32 that s * 65521 becomes under ^, for s in 0..65535: the product
\* itself while it is below 2^31, the product minus 2^32 above
Product32(s) ==
    IF s <= 32775 THEN s * 65521
    ELSE (s - 65536) * 65521 - 15 * 65536

\* the twist constant named for the two low bits of s
TwistFor(s) ==
    CASE s % 4 = 0 -> 32771
      [] s % 4 = 1 -> 16411
      [] s % 4 = 2 -> 14009
      [] s % 4 = 3 -> 11003

\* C14: for every seed s in 0..65535, next(s) is s * 65521 XORed with the
\* twist constant chosen by the two low bits of s: 0 selects 32771,
\* 1 selects 16411, 2 selects 14009 and 3 selects 11003.
C14_NextIsProductXorTwist ==
    (advances = 0 /\ session.seed \in 0..MaxSeed) =>
        round.seed = BitXor(Product32(session.seed), TwistFor(session.seed))

\* next(2) = (2 * 65521) ^ 14009 = 117083
C14_Witness ==
    /\ advances = 0
    /\ session.seed = 2
    /\ round.seed = 117083

\* the seed a round is derived from after n advances
RECURSIVE NextN(_, _)
NextN(seed, n) == IF n = 0 THEN seed ELSE NextN(next(seed), n - 1)

\* C15: the target colour and the carried seed of the round in progress
\* are a function of the initial session seed, the difficulty and the
\* number of rounds played, whatever the player guessed; two runs from the
\* same seed and difficulty therefore show the same rounds.
C15_RoundsIndependentOfGuesses ==
    LET r == makeRound(session.difficulty, NextN(session.seed, advances))
    IN  /\ round.hue = r.hue
        /\ round.saturation = r.saturation
        /\ round.value = r.value
        /\ round.seed = r.seed

\* the third round of a run in which one guess scored and one did not
C15_Witness ==
    /\ advances = 2
    /\ session.guessed = 2
    /\ session.score = 1
    /\ ~round.checking

\* C16: in every reachable state guessed is the number of doNext steps
\* performed so far, plus 1 when the round in progress has been checked.
C16_GuessedCountsRounds ==
    session.guessed = advances + (IF round.checking THEN 1 ELSE 0)

\* the third round, checked
C16_Witness ==
    /\ advances = 2
    /\ round.checking
    /\ session.guessed = 3

C18_ColourInRangeEveryRound ==
    /\ HueInRange(round.hue)
    /\ SVInRange(round.saturation)
    /\ SVInRange(round.value)

\* a round derived from a negative seed, with a colour that is not black
C18_Witness ==
    /\ advances >= 1
    /\ NextN(session.seed, advances) < 0
    /\ round.hue # FromInt(0)
    /\ round.value # FromInt(0)
    /\ HueInRange(round.hue)
    /\ SVInRange(round.value)

\* C19: every carried seed reachable from an initial seed in 0..65535 is
\* an integer of the signed 32-bit range, and the twist index seed & 3
\* computed from it is in 0..3, so that next is defined on it.
C19_CarriedSeedInt32 ==
    /\ round.seed >= (0 - 2147483647) - 1
    /\ round.seed <= 2147483647
    /\ BitAnd(round.seed, 3) \in 0..3
    /\ BitAnd(round.seed, 3) + 1 \in DOMAIN TWIST

\* seed 0xFFFF: the product 4293918735 exceeds 2^31 and is carried as the
\* negative int32 -1048561, XORed with 11003 to -1037580, whose twist
\* index is 0; the next round's carried seed comes from it
C19_Witness ==
    /\ session.seed = MaxSeed
    /\ advances = 1
    /\ NextN(session.seed, 1) = 0 - 1037580
    /\ round.seed = next(0 - 1037580)
====
